---- MODULE Spec2Model ----
(***************************************************************************)
(* Model of trainer_yolo/boxutils.py: interval and box intersection, the   *)
(* grid of a tile, the per-cell top-n ROI selection, the cell-relative     *)
(* normalisation and its inverse, and the experimental two-strategy merge. *)
(*                                                                         *)
(* Tensors are functions: a [grid_n, grid_n, ...] tensor is a function on  *)
(* Cells (pairs <<row, col>>), a [rois_n] axis is a function on RoiIdx     *)
(* (0-based, as in the code).  float32 values are exact rationals          *)
(* [num, den] in lowest terms; rounding is not modelled.  argmax/argmin    *)
(* return the lowest index among ties, as the CPU kernels do.              *)
(***************************************************************************)
EXTENDS Integers, Sequences, FiniteSets, TLC

VARIABLES
    pc,             \* position in the call sequence being modelled
    tile,           \* <<x1, y1, x2, y2>>, integers
    rois,           \* [RoiIdx -> <<x1, y1, x2, y2>>], integers
    n,              \* number of slots per cell
    comparator,     \* "largest_w" | "furthest_from_center" | "closest_to_center"
    expand,         \* rational expand factor
    has_center,     \* [Cells -> [RoiIdx -> BOOLEAN]], the mask of the loop
    n_largest,      \* sequence (one entry per round) of [Cells -> <<cx, cy, w>>]
    trace,          \* per round: mask before the round, largest_indices, any_roi_in_cell
    rel_rois,       \* output of make_rois_tile_cell_relative: [Cells -> Seq(<<x, y, w>>)]
    abs_rois,       \* output of grid_cell_to_tile_coords: [Cells -> Seq(<<y1, x1, y2, x2>>)]
    merge,          \* locals and result of n_experimental_roi_selection_strategy
    sel_in,         \* argument of roi_select: <<r1, r2, p1, p2>>
    sel_out,        \* result of roi_select: <<a, b>>
    primeroi,       \* argument of boxintersect
    min_intersect,  \* argument of boxintersect (rational)
    inter_out       \* results of one_d_intersect / boxintersect

vars == <<pc, tile, rois, n, comparator, expand, has_center, n_largest, trace,
          rel_rois, abs_rois, merge, sel_in, sel_out, primeroi, min_intersect, inter_out>>

----------------------------------------------------------------------------
(* Bounds of the model *)

MaxCoord == 2      \* ROI corner coordinates are Unit * (0..MaxCoord)
RoisN    == 2      \* rois_n, the length of the ROI list
GridN    == 2      \* grid_n
MaxN     == 2      \* n ranges over 1..MaxN
MaxW     == 2      \* widths and positions of roi_select's arguments range over 0..MaxW

(* Program constants *)

MaskedDistance == 1000    \* score of a masked-out ROI under closest_to_center

----------------------------------------------------------------------------
(* Exact rational arithmetic standing for float32 *)

RECURSIVE GCD(_, _)
GCD(a, b) == IF b = 0 THEN a ELSE GCD(b, a % b)

Abs(a) == IF a < 0 THEN -a ELSE a

Rat(a, b) ==
    LET s == IF b < 0 THEN -1 ELSE 1
        g == GCD(Abs(a), Abs(b))
    IN  [num |-> (s * a) \div g, den |-> (s * b) \div g]

RInt(a)    == [num |-> a, den |-> 1]
RZero      == RInt(0)
RAdd(a, b) == Rat(a.num * b.den + b.num * a.den, a.den * b.den)
RSub(a, b) == Rat(a.num * b.den - b.num * a.den, a.den * b.den)
RMul(a, b) == Rat(a.num * b.num, a.den * b.den)
RDiv(a, b) == Rat(a.num * b.den, a.den * b.num)
RAbs(a)    == [num |-> Abs(a.num), den |-> a.den]
RLt(a, b)  == a.num * b.den < b.num * a.den
RLe(a, b)  == a.num * b.den <= b.num * a.den
RGt(a, b)  == RLt(b, a)
RGe(a, b)  == RLe(b, a)
RMin(a, b) == IF RLe(a, b) THEN a ELSE b
RMax(a, b) == IF RGe(a, b) THEN a ELSE b
RTwo       == RInt(2)

\* Force(f) is f; it makes TLC build the function f once instead of
\* re-evaluating its defining expression at every application
Force(f) == CHOOSE g \in {f} : g = f

----------------------------------------------------------------------------
(* Index sets *)

RoiIdx == 0 .. (RoisN - 1)
Cells  == (0 .. (GridN - 1)) \X (0 .. (GridN - 1))     \* <<row, col>>

Comparators == {"largest_w", "furthest_from_center", "closest_to_center"}

----------------------------------------------------------------------------
(* one_d_intersect and boxintersect *)

\* one_d_intersect with inter = interB alone
one_d_intersect_b(px1, px2, qx1, qx2) ==
    LET interA == RGt(px1, qx1)
        interB == RGt(px2, qx1)
        interC == RGt(px2, qx2)
        interD == RGt(qx2, px1)
        inter  == interB
        inter_x1 == IF (~interA) /\ interB THEN qx1 ELSE px1
        inter_x2 == IF interC /\ interD THEN qx2 ELSE px2
        inter_w  == RSub(inter_x2, inter_x1)
    IN  [inter |-> inter, inter_x1 |-> inter_x1,
         inter_w |-> IF inter THEN inter_w ELSE RZero]

\* one_d_intersect(px1, px2, qx1, qx2) on rationals: [inter, inter_x1, inter_w]
one_d_intersect(px1, px2, qx1, qx2) ==
    LET interA == RGt(px1, qx1)
        interB == RGt(px2, qx1)
        interC == RGt(px2, qx2)
        interD == RGt(qx2, px1)
        inter  == interB /\ interD
        inter_x1 == IF (~interA) /\ interB THEN qx1 ELSE px1
        inter_x2 == IF interC /\ interD THEN qx2 ELSE px2
        inter_w  == RSub(inter_x2, inter_x1)
    IN  [inter |-> inter, inter_x1 |-> inter_x1,
         inter_w |-> IF inter THEN inter_w ELSE RZero]

\* boxintersect(primeroi, rois, min_intersect): [RoiIdx -> BOOLEAN]
boxintersect(p, rs, min_i) ==
    [j \in DOMAIN rs |->
        LET px1 == RInt(p[1])  py1 == RInt(p[2])  px2 == RInt(p[3])  py2 == RInt(p[4])
            x1 == RInt(rs[j][1])  y1 == RInt(rs[j][2])
            x2 == RInt(rs[j][3])  y2 == RInt(rs[j][4])
            ix == one_d_intersect(px1, px2, x1, x2)
            iy == one_d_intersect(py1, py2, y1, y2)
            inter_area == RMul(ix.inter_w, iy.inter_w)
            parea == RMul(RSub(px2, px1), RSub(py2, py1))
            areas == RMul(RSub(x2, x1), RSub(y2, y1))
            min_areas == RMin(areas, parea)
            inter == ix.inter /\ iy.inter
            inter_with_area == RGe(inter_area, RMul(min_areas, min_i))
        IN  inter /\ inter_with_area]

----------------------------------------------------------------------------
(* Grid of a tile *)

\* gen_grid: cell <<row, col>> holds <<col, row>>
gen_grid == [c \in Cells |-> <<RInt(c[2]), RInt(c[1])>>]

\* size_and_move_grid(grid, cell_w, origin)
size_and_move_grid(grid, cell_w, origin) ==
    Force([c \in Cells |-> <<RAdd(RMul(grid[c][1], cell_w), origin[1]),
                             RAdd(RMul(grid[c][2], cell_w), origin[2])>>])

\* gen_grid_for_tile(tile, grid_n): [grid, cell_w]
gen_grid_for_tile(t) ==
    LET cell_w == RDiv(RInt(t[3] - t[1]), RInt(GridN))
    IN  [grid   |-> size_and_move_grid(gen_grid, cell_w, <<RInt(t[1]), RInt(t[2])>>),
         cell_w |-> cell_w]

\* grid_centers = (grid + grid + cell_w) / 2.0
grid_centers(grid, cell_w) ==
    Force([c \in Cells |-> <<RDiv(RAdd(RAdd(grid[c][1], grid[c][1]), cell_w), RTwo),
                             RDiv(RAdd(RAdd(grid[c][2], grid[c][2]), cell_w), RTwo)>>])

\* cxyw_rois: <<x1, y1, x2, y2>> becomes <<cx, cy, w>>
cxyw_rois(rs) ==
    Force([j \in DOMAIN rs |->
        <<RDiv(RInt(rs[j][1] + rs[j][3]), RTwo),
          RDiv(RInt(rs[j][2] + rs[j][4]), RTwo),
          RInt(rs[j][3] - rs[j][1])>>])

\* center_in_grid_cell(grid, grid_n, cell_w, rois, expand) on centre-form rois
center_in_grid_cell(grid, cell_w, crois, ex) ==
    Force([c \in Cells |-> [j \in DOMAIN crois |->
        LET lo == RMul(RSub(ex, RInt(1)), cell_w)
            hi == RMul(ex, cell_w)
            has_center_x == /\ RGe(crois[j][1], RSub(grid[c][1], lo))
                            /\ RLt(crois[j][1], RAdd(grid[c][1], hi))
            has_center_y == /\ RGe(crois[j][2], RSub(grid[c][2], lo))
                            /\ RLt(crois[j][2], RAdd(grid[c][2], hi))
        IN  has_center_x /\ has_center_y]])

\* center_in_grid_cell_periphery
center_in_grid_cell_periphery(grid, cell_w, crois, ex) ==
    LET has_c  == center_in_grid_cell(grid, cell_w, crois, RInt(1))
        has_ce == center_in_grid_cell(grid, cell_w, crois, ex)
    IN  [c \in Cells |-> [j \in DOMAIN crois |-> has_ce[c][j] /\ ~has_c[c][j]]]

----------------------------------------------------------------------------
(* n_largest_rois_in_cell *)

ZeroRoi == <<RZero, RZero, RZero>>

\* tf.argmax / tf.argmin over the ROI axis: the lowest index among ties
ArgMax(scores) ==
    LET f == Force(scores)
    IN  CHOOSE j \in DOMAIN f :
            /\ \A k \in DOMAIN f : RLe(f[k], f[j])
            /\ \A k \in DOMAIN f : k < j => RLt(f[k], f[j])

ArgMin(scores) ==
    LET f == Force(scores)
    IN  CHOOSE j \in DOMAIN f :
            /\ \A k \in DOMAIN f : RGe(f[k], f[j])
            /\ \A k \in DOMAIN f : k < j => RGt(f[k], f[j])

\* d_from_cell_center of one ROI to one cell centre (L1 distance)
d_from_cell_center(croi, gc) ==
    RAdd(RAbs(RSub(croi[1], gc[1])), RAbs(RSub(croi[2], gc[2])))

\* the per-cell scores of one round and the index picked from them
largest_index(cmp, crois, gc, mask) ==
    IF cmp = "largest_w"
    THEN ArgMax([j \in DOMAIN crois |-> IF mask[j] THEN crois[j][3] ELSE RZero])
    ELSE IF cmp = "furthest_from_center"
    THEN ArgMax([j \in DOMAIN crois |->
                    IF mask[j] THEN d_from_cell_center(crois[j], gc) ELSE RZero])
    ELSE ArgMin([j \in DOMAIN crois |->
                    IF mask[j] THEN d_from_cell_center(crois[j], gc)
                               ELSE RInt(MaskedDistance)])

\* one iteration of the loop "for i in range(n)": the locals it computes and the
\* mask it leaves for the next iteration
select_round(cmp, crois, centers, mask) ==
    LET any_roi_in_cell == Force([c \in Cells |-> \E j \in DOMAIN crois : mask[c][j]])
        largest_indices ==
            Force([c \in Cells |-> largest_index(cmp, crois, centers[c], mask[c])])
        largest_roi_in_cell ==
            Force([c \in Cells |-> IF any_roi_in_cell[c] THEN crois[largest_indices[c]]
                                                         ELSE ZeroRoi])
        zero_mask ==
            Force([c \in Cells |-> [j \in DOMAIN crois |-> j # largest_indices[c]]])
    IN  [mask_before         |-> mask,
         any_roi_in_cell     |-> any_roi_in_cell,
         largest_indices     |-> largest_indices,
         largest_roi_in_cell |-> largest_roi_in_cell,
         has_center          |-> Force([c \in Cells |-> [j \in DOMAIN crois |->
                                     mask[c][j] /\ zero_mask[c][j]]])]

RECURSIVE select_loop(_, _, _, _, _, _)
select_loop(k, cmp, crois, centers, mask, acc) ==
    IF k = 0 THEN acc
    ELSE LET r == select_round(cmp, crois, centers, mask)
         IN  select_loop(k - 1, cmp, crois, centers, r.has_center, Append(acc, r))

\* the mask the loop starts from (lines 124-137)
initial_mask(t, rs, ex) ==
    LET g == gen_grid_for_tile(t)
    IN  center_in_grid_cell(g.grid, g.cell_w, cxyw_rois(rs), ex)

cell_centers(t) ==
    LET g == gen_grid_for_tile(t) IN grid_centers(g.grid, g.cell_w)

\* the rounds of n_largest_rois_in_cell(tile, rois, rois_n, grid_n, n, comparator, expand)
n_largest_rounds(t, rs, nn, cmp, ex) ==
    select_loop(nn, cmp, cxyw_rois(rs), cell_centers(t), initial_mask(t, rs, ex), <<>>)

\* tf.stack(n_largest, axis=2): [Cells -> sequence of n centre-form ROIs]
stack_rounds(rounds) ==
    Force([c \in Cells |-> [k \in 1 .. Len(rounds) |-> rounds[k].largest_roi_in_cell[c]]])

n_largest_rois_in_cell(t, rs, nn, cmp, ex) ==
    stack_rounds(n_largest_rounds(t, rs, nn, cmp, ex))

----------------------------------------------------------------------------
(* Coordinate transforms *)

\* make_rois_tile_cell_relative(tile, tiled_rois, grid_n)
make_rois_tile_cell_relative(t, tiled_rois) ==
    LET g      == gen_grid_for_tile(t)
        cell_w == g.cell_w
        tile_w == RMul(cell_w, RInt(GridN))
        gc     == grid_centers(g.grid, cell_w)
        half   == RDiv(cell_w, RTwo)
    IN  Force([c \in Cells |-> [k \in DOMAIN tiled_rois[c] |->
            LET tr_x == tiled_rois[c][k][1]
                tr_y == tiled_rois[c][k][2]
                tr_w == tiled_rois[c][k][3]
                ctr_x == RDiv(RSub(tr_x, gc[c][1]), half)
                ctr_y == RDiv(RSub(tr_y, gc[c][2]), half)
                ctr_w == RDiv(tr_w, tile_w)
            IN  <<IF RGt(tr_w, RZero) THEN ctr_x ELSE tr_x,
                  IF RGt(tr_w, RZero) THEN ctr_y ELSE tr_x,
                  ctr_w>>]])

\* n_largest_rois_in_cell_relative
n_largest_rois_in_cell_relative(t, rs, nn, cmp, ex) ==
    make_rois_tile_cell_relative(t, n_largest_rois_in_cell(t, rs, nn, cmp, ex))

\* box_corners in the order x1, y1, x2, y2
box_corners_xy(roi_cx, roi_cy, roi_w) ==
    LET hw == RDiv(roi_w, RTwo)
    IN  <<RSub(roi_cx, hw), RSub(roi_cy, hw), RAdd(roi_cx, hw), RAdd(roi_cy, hw)>>

\* lines 299-303: the corners y1, x1, y2, x2 of the square of centre and width given
box_corners(roi_cx, roi_cy, roi_w) ==
    LET hw == RDiv(roi_w, RTwo)
    IN  <<RSub(roi_cy, hw), RSub(roi_cx, hw), RAdd(roi_cy, hw), RAdd(roi_cx, hw)>>

\* grid_cell_to_tile_coords(rois, grid_n, tile_size), one batch element
grid_cell_to_tile_coords(nrois, tile_size) ==
    LET cell_w == RDiv(tile_size, RInt(GridN))
        grid   == [c \in Cells |-> <<RMul(gen_grid[c][1], cell_w),
                                     RMul(gen_grid[c][2], cell_w)>>]
        gc     == grid_centers(grid, cell_w)
    IN  Force([c \in Cells |-> [k \in DOMAIN nrois[c] |->
            LET roi_cx == RAdd(RDiv(RMul(nrois[c][k][1], cell_w), RTwo), gc[c][1])
                roi_cy == RAdd(RDiv(RMul(nrois[c][k][2], cell_w), RTwo), gc[c][2])
                roi_w  == RMul(nrois[c][k][3], tile_size)
            IN  box_corners(roi_cx, roi_cy, roi_w)]])

----------------------------------------------------------------------------
(* n_experimental_roi_selection_strategy *)

PeriphExpand == Rat(13, 10)     \* expand=1.3 of the periphery selection
NormalExpand == RInt(1)         \* expand=1.0 of the normal selection

\* the decision table of roi_select on the candidates x = <<r1, r2, p1, p2>>, each
\* <<x, y, w>>, and their nonzero-width pattern nz
roi_table(x, nz) ==
    LET r1 == x[1]  r2 == x[2]  p1 == x[3]  p2 == x[4]
        a0 == <<r1, r1>>
        a1 == <<r1, r2>>
        a2 == <<p1, p1>>
        a3 == <<p1, p2>>
        a4 == <<r1, p1>>
        a5 == <<p2, p2>>
        a6 == <<r1, p2>>
        a7 == <<r2, r2>>
        a8 == <<r2, p2>>
        a9 == <<r2, p1>>
        zero == <<ZeroRoi, ZeroRoi>>
        where(pat, a, r) == IF nz = pat THEN a ELSE r
        s00 == where(<<FALSE, FALSE, FALSE, FALSE>>, a0, zero)
        s01 == where(<<FALSE, FALSE, FALSE, TRUE>>,  a5, s00)
        s02 == where(<<FALSE, FALSE, TRUE,  FALSE>>, a2, s01)
        s03 == where(<<FALSE, FALSE, TRUE,  TRUE>>,  a3, s02)
        s04 == where(<<FALSE, TRUE,  FALSE, FALSE>>, a7, s03)
        s05 == where(<<FALSE, TRUE,  FALSE, TRUE>>,  a8, s04)
        s06 == where(<<FALSE, TRUE,  TRUE,  FALSE>>, a9, s05)
        s07 == where(<<FALSE, TRUE,  TRUE,  TRUE>>,  a9, s06)
        s08 == where(<<TRUE,  FALSE, FALSE, FALSE>>, a0, s07)
        s09 == where(<<TRUE,  FALSE, FALSE, TRUE>>,  a6, s08)
        s10 == where(<<TRUE,  FALSE, TRUE,  FALSE>>, a4, s09)
        s11 == where(<<TRUE,  FALSE, TRUE,  TRUE>>,  a4, s10)
        s12 == where(<<TRUE,  TRUE,  FALSE, FALSE>>, a1, s11)
        s13 == where(<<TRUE,  TRUE,  FALSE, TRUE>>,  a1, s12)
        s14 == where(<<TRUE,  TRUE,  TRUE,  FALSE>>, a1, s13)
        s15 == where(<<TRUE,  TRUE,  TRUE,  TRUE>>,  a1, s14)
    IN  s15

\* roi_select with nz = tf.greater_equal(w, 0)
roi_select_ge(x) == roi_table(x, [k \in 1 .. 4 |-> RGe(x[k][3], RZero)])

\* roi_select(rois): nz = tf.greater(w, 0), then the table
roi_select(x) == roi_table(x, [k \in 1 .. 4 |-> RGt(x[k][3], RZero)])

\* roi_exclude comparing a periphery slot against every normal slot
roi_exclude_any(rw, pw) == [k \in DOMAIN pw |-> \E j \in DOMAIN rw : rw[j] = pw[k]]

\* roi_exclude = tf.equal(rw, pw): slot k of the periphery against slot k of the normal
roi_exclude(rw, pw) == [k \in DOMAIN pw |-> rw[k] = pw[k]]

\* lines 254-262: the four candidates of every cell, periphery widths zeroed where excluded
rscombined_rois(normal, periph) ==
    Force([c \in Cells |->
        LET rw == [k \in DOMAIN normal[c] |-> normal[c][k][3]]
            pw == [k \in DOMAIN periph[c] |-> periph[c][k][3]]
            ex == roi_exclude(rw, pw)
            rsperiph == [k \in DOMAIN periph[c] |->
                            <<periph[c][k][1], periph[c][k][2],
                              IF ex[k] THEN RZero ELSE pw[k]>>]
        IN  normal[c] \o rsperiph])

\* n_experimental_roi_selection_strategy(tile, rois, rois_n, grid_n, n), past its assert
n_experimental_roi_selection_strategy(t, rs, nn) ==
    LET normal == n_largest_rois_in_cell_relative(t, rs, nn, "closest_to_center", NormalExpand)
        periph == n_largest_rois_in_cell_relative(t, rs, nn, "closest_to_center", PeriphExpand)
        comb   == rscombined_rois(normal, periph)
    IN  [normal_rois     |-> normal,
         periph_rois     |-> periph,
         rscombined_rois |-> comb,
         combined_rois   |-> Force([c \in Cells |-> roi_select(comb[c])])]

----------------------------------------------------------------------------
(* Inputs *)

Coords(u) == {u * k : k \in 0 .. MaxCoord}

\* rectangles <<x1, y1, x2, y2>> with x2 >= x1 and y2 >= y1, corners on u * (0..MaxCoord)
RoiSet(u) ==
    {r \in Coords(u) \X Coords(u) \X Coords(u) \X Coords(u) : r[3] >= r[1] /\ r[4] >= r[2]}

\* units of length: 1, and one that puts ROIs further than MaskedDistance from a cell centre
Units == {1, 2 * MaskedDistance}

\* square tiles (in units): one at the origin, one away from it
OriginTile == <<0, 0, 2, 2>>
OffsetTile == <<1, 1, 5, 5>>
TileBases  == {OriginTile, OffsetTile}

\* a smaller family: the rectangles of RoiSet whose top-left corner lies on the
\* diagonal (y1 = x1) and whose height is 0 or equal to their width
AnchoredRois(u) ==
    {r \in RoiSet(u) : r[2] = r[1] /\ (r[4] = r[2] \/ r[4] - r[2] = r[3] - r[1])}

Scaled(u, t) == [k \in DOMAIN t |-> u * t[k]]

Expands == {NormalExpand, PeriphExpand}

None == <<>>

----------------------------------------------------------------------------
(* Specification Spec: n_largest_rois_in_cell_relative round by round, then *)
(* grid_cell_to_tile_coords on its result with tile_size = tile width       *)

geomVars  == <<primeroi, min_intersect, inter_out>>
mergeVars == <<merge, sel_in, sel_out>>
inputVars == <<tile, rois, n, comparator, expand>>

InitUnused ==
    /\ merge = None /\ sel_in = None /\ sel_out = None
    /\ primeroi = None /\ min_intersect = None /\ inter_out = None

\* both tiles and every rectangle at unit 1; the tile at the origin and the
\* anchored rectangles at the large unit
InitTileRois ==
    \E u \in Units :
        /\ tile \in {Scaled(u, b) : b \in IF u = 1 THEN TileBases ELSE {OriginTile}}
        /\ rois \in [RoiIdx -> IF u = 1 THEN RoiSet(u) ELSE AnchoredRois(u)]

Init ==
    /\ pc = "select"
    /\ InitTileRois
    /\ n \in 1 .. MaxN
    /\ comparator \in Comparators
    /\ expand \in Expands
    /\ has_center = initial_mask(tile, rois, expand)
    /\ n_largest = <<>>
    /\ trace = <<>>
    /\ rel_rois = None
    /\ abs_rois = None
    /\ InitUnused

\* one iteration of "for i in range(n)" (lines 142-167)
SelectRound ==
    /\ pc = "select"
    /\ Len(n_largest) < n
    /\ LET r == select_round(comparator, cxyw_rois(rois), cell_centers(tile), has_center)
       IN  /\ n_largest' = Append(n_largest, r.largest_roi_in_cell)
           /\ trace' = Append(trace, [mask_before     |-> r.mask_before,
                                      any_roi_in_cell |-> r.any_roi_in_cell,
                                      largest_indices |-> r.largest_indices])
           /\ has_center' = r.has_center
    /\ UNCHANGED <<pc, rel_rois, abs_rois>>
    /\ UNCHANGED inputVars /\ UNCHANGED mergeVars /\ UNCHANGED geomVars

\* the loop is over: stack the rounds (line 168) and make them cell-relative (line 200)
MakeRelative ==
    /\ pc = "select"
    /\ Len(n_largest) = n
    /\ rel_rois' = make_rois_tile_cell_relative(tile,
                      [c \in Cells |-> [k \in 1 .. n |-> n_largest[k][c]]])
    /\ pc' = "relative"
    /\ UNCHANGED <<has_center, n_largest, trace, abs_rois>>
    /\ UNCHANGED inputVars /\ UNCHANGED mergeVars /\ UNCHANGED geomVars

\* grid_cell_to_tile_coords(rois, grid_n, tile_size) with tile_size = tile width
ToTileCoords ==
    /\ pc = "relative"
    /\ abs_rois' = grid_cell_to_tile_coords(rel_rois, RInt(tile[3] - tile[1]))
    /\ pc' = "absolute"
    /\ UNCHANGED <<has_center, n_largest, trace, rel_rois>>
    /\ UNCHANGED inputVars /\ UNCHANGED mergeVars /\ UNCHANGED geomVars

Next == SelectRound \/ MakeRelative \/ ToTileCoords

Spec == Init /\ [][Next]_vars

----------------------------------------------------------------------------
(* Specification SpecRoundTrip: the same calls as Spec on a smaller input   *)
(* set (unit 1, both tiles, anchored rectangles, n = MaxN, the default      *)
(* comparator and expand)                                                  *)

InitRoundTrip ==
    /\ pc = "select"
    /\ tile \in TileBases
    /\ rois \in [RoiIdx -> AnchoredRois(1)]
    /\ n = MaxN
    /\ comparator = "largest_w"
    /\ expand = NormalExpand
    /\ has_center = initial_mask(tile, rois, expand)
    /\ n_largest = <<>>
    /\ trace = <<>>
    /\ rel_rois = None
    /\ abs_rois = None
    /\ InitUnused

SpecRoundTrip == InitRoundTrip /\ [][Next]_vars

----------------------------------------------------------------------------
(* Specification SpecMerge: n_experimental_roi_selection_strategy *)

selVars == <<has_center, n_largest, trace, rel_rois, abs_rois>>

InitMerge ==
    /\ pc = "experimental"
    /\ tile = OriginTile
    /\ rois \in [RoiIdx -> AnchoredRois(1)]
    /\ n \in 1 .. MaxN
    /\ comparator = "closest_to_center"
    /\ expand = None
    /\ has_center = None /\ n_largest = None /\ trace = None
    /\ rel_rois = None /\ abs_rois = None
    /\ InitUnused

\* assert n == 2 fails (line 205)
ExperimentalAssert ==
    /\ pc = "experimental"
    /\ n # 2
    /\ pc' = "AssertionError"
    /\ UNCHANGED <<merge, sel_in, sel_out>>
    /\ UNCHANGED inputVars /\ UNCHANGED selVars /\ UNCHANGED geomVars

\* the whole call (lines 204-265); sel_in and sel_out are the arguments and
\* results of the roi_select calls of map_fn, by cell
Experimental ==
    /\ pc = "experimental"
    /\ n = 2
    /\ LET r == n_experimental_roi_selection_strategy(tile, rois, n)
       IN  /\ merge' = [normal_rois |-> r.normal_rois, periph_rois |-> r.periph_rois]
           /\ sel_in' = r.rscombined_rois
           /\ sel_out' = r.combined_rois
    /\ pc' = "merged"
    /\ UNCHANGED inputVars /\ UNCHANGED selVars /\ UNCHANGED geomVars

NextMerge == ExperimentalAssert \/ Experimental

SpecMerge == InitMerge /\ [][NextMerge]_vars

----------------------------------------------------------------------------
(* Specification SpecRoiSelect: roi_select on any four candidates *)

\* candidates <<x, y, w>> with w >= 0
SelRois == {<<RInt(x), RInt(0 - x), RInt(w)>> : x \in 0 .. MaxW, w \in 0 .. MaxW}

InitRoiSelect ==
    /\ pc = "roi_select"
    /\ sel_in \in [1 .. 4 -> SelRois]
    /\ sel_out = None
    /\ merge = None
    /\ tile = None /\ rois = None /\ n = None /\ comparator = None /\ expand = None
    /\ has_center = None /\ n_largest = None /\ trace = None
    /\ rel_rois = None /\ abs_rois = None
    /\ primeroi = None /\ min_intersect = None /\ inter_out = None

CallRoiSelect ==
    /\ pc = "roi_select"
    /\ sel_out' = roi_select(sel_in)
    /\ pc' = "selected"
    /\ UNCHANGED <<merge, sel_in>>
    /\ UNCHANGED inputVars /\ UNCHANGED selVars /\ UNCHANGED geomVars

NextRoiSelect == CallRoiSelect

SpecRoiSelect == InitRoiSelect /\ [][NextRoiSelect]_vars

----------------------------------------------------------------------------
(* Specification SpecIntersect: one_d_intersect and boxintersect of a prime *)
(* ROI and one candidate (boxintersect is elementwise over its candidates)  *)

MinIntersects == {RZero, Rat(1, 2), RInt(1)}

InitIntersect ==
    /\ pc = "geometry"
    /\ primeroi \in RoiSet(1)
    /\ rois \in [{0} -> RoiSet(1)]
    /\ min_intersect \in MinIntersects
    /\ inter_out = None
    /\ tile = None /\ n = None /\ comparator = None /\ expand = None
    /\ has_center = None /\ n_largest = None /\ trace = None
    /\ rel_rois = None /\ abs_rois = None
    /\ merge = None /\ sel_in = None /\ sel_out = None

\* one_d_intersect as boxintersect calls it: on the x axis (k = 1) or the y axis (k = 2)
CallOneDIntersect ==
    /\ pc = "geometry"
    /\ \E k \in {1, 2} :
         LET px1 == RInt(primeroi[k])  px2 == RInt(primeroi[k + 2])
             qx1 == RInt(rois[0][k])   qx2 == RInt(rois[0][k + 2])
             r   == one_d_intersect(px1, px2, qx1, qx2)
         IN  inter_out' = [px1 |-> px1, px2 |-> px2, qx1 |-> qx1, qx2 |-> qx2,
                           inter |-> r.inter, inter_x1 |-> r.inter_x1, inter_w |-> r.inter_w]
    /\ pc' = "one_d"
    /\ UNCHANGED <<primeroi, min_intersect>>
    /\ UNCHANGED inputVars /\ UNCHANGED selVars /\ UNCHANGED mergeVars

CallBoxIntersect ==
    /\ pc = "geometry"
    /\ inter_out' = boxintersect(primeroi, rois, min_intersect)
    /\ pc' = "box"
    /\ UNCHANGED <<primeroi, min_intersect>>
    /\ UNCHANGED inputVars /\ UNCHANGED selVars /\ UNCHANGED mergeVars

NextIntersect == CallOneDIntersect \/ CallBoxIntersect

SpecIntersect == InitIntersect /\ [][NextIntersect]_vars

----------------------------------------------------------------------------
(* Claims about n_largest_rois_in_cell, under Spec *)

crois == cxyw_rois(rois)

\* the ROIs whose centre lies in the containment window of cell c
Contained(c) == {j \in RoiIdx : initial_mask(tile, rois, expand)[c][j]}

Rounds == 1 .. Len(n_largest)

LoopDone == Len(n_largest) = n

\* C1: every slot written for a cell is the sentinel (0,0,0) or the centre-form
\* of an input ROI whose centre lies in that cell's containment window
C1_OutputContained ==
    \A k \in Rounds : \A c \in Cells :
        \/ n_largest[k][c] = ZeroRoi
        \/ \E j \in Contained(c) : n_largest[k][c] = crois[j]

\* C2: an input ROI index that won a round of a cell never wins a later round
\* of the same cell, so no two slots of a cell hold the same input ROI index
C2_NoRepeat ==
    \A c \in Cells : \A k1 \in Rounds : \A k2 \in Rounds :
        (k1 < k2 /\ trace[k1].any_roi_in_cell[c] /\ trace[k2].any_roi_in_cell[c])
            => trace[k1].largest_indices[c] # trace[k2].largest_indices[c]

\* C3: a cell that contains exactly k < n ROIs holds exactly these k ROIs in its
\* first k slots and the sentinel (0,0,0) in the slots after them
C3_FewerThanN ==
    LoopDone =>
        \A c \in Cells :
            LET k == Cardinality(Contained(c))
            IN  k < n =>
                  /\ \A i \in (k + 1) .. n : n_largest[i][c] = ZeroRoi
                  /\ {trace[i].largest_indices[c] : i \in 1 .. k} = Contained(c)
                  /\ \A i \in 1 .. k : n_largest[i][c] = crois[trace[i].largest_indices[c]]

\* the contained ROI of cell c that comes i-th by decreasing width, ties to the lowest index
IthWidest(c, i) ==
    CHOOSE j \in Contained(c) :
        Cardinality({m \in Contained(c) :
            \/ RGt(crois[m][3], crois[j][3])
            \/ (crois[m][3] = crois[j][3] /\ m < j)}) = i - 1

\* C4: with comparator largest_w, slot i of a cell holds the contained ROI with the
\* i-th largest width (ties to the lowest input index), then only sentinels
C4_DecreasingWidth ==
    (comparator = "largest_w" /\ LoopDone) =>
        \A c \in Cells : \A i \in 1 .. n :
            IF i <= Cardinality(Contained(c))
            THEN n_largest[i][c] = crois[IthWidest(c, i)]
            ELSE n_largest[i][c] = ZeroRoi

\* C5: with comparator closest_to_center, in every round in which a cell still has
\* an unconsumed contained ROI, the winner is such an ROI of minimal L1 distance to
\* the cell centre; a masked-out ROI is never chosen ahead of it
C5_ClosestWins ==
    comparator = "closest_to_center" =>
        \A k \in Rounds : \A c \in Cells :
            trace[k].any_roi_in_cell[c] =>
                LET w == trace[k].largest_indices[c]
                    gc == cell_centers(tile)[c]
                IN  /\ trace[k].mask_before[c][w]
                    /\ \A j \in RoiIdx :
                          trace[k].mask_before[c][j] =>
                              RLe(d_from_cell_center(crois[w], gc),
                                  d_from_cell_center(crois[j], gc))

InUnit(v)     == RGe(v, RInt(0 - 1)) /\ RLe(v, RInt(1))
InZeroOne(v)  == RGe(v, RZero) /\ RLe(v, RInt(1))

\* C10: every ROI output by n_largest_rois_in_cell_relative has ctr_x and ctr_y
\* in [-1,1] and ctr_w in [0,1]
C10_NormalizedRange ==
    pc \in {"relative", "absolute"} =>
        \A c \in Cells : \A k \in 1 .. n :
            /\ InUnit(rel_rois[c][k][1])
            /\ InUnit(rel_rois[c][k][2])
            /\ InZeroOne(rel_rois[c][k][3])

----------------------------------------------------------------------------
(* Claim about the round trip, under SpecRoundTrip *)

\* slot k of cell c holds an input ROI of nonzero width
SelectedNonEmpty(c, k) ==
    trace[k].any_roi_in_cell[c] /\ RGt(n_largest[k][c][3], RZero)

\* the input rectangle behind slot k of cell c
SelectedRect(c, k) == rois[trace[k].largest_indices[c]]

\* C8 as stated: make_rois_tile_cell_relative followed by grid_cell_to_tile_coords
\* (tile_size = tile width) gives back the selected input rectangle as (y1, x1, y2, x2)
C8_RoundTripOriginal ==
    pc = "absolute" =>
        \A c \in Cells : \A k \in 1 .. n :
            SelectedNonEmpty(c, k) =>
                LET r == SelectedRect(c, k)
                IN  abs_rois[c][k] = <<RInt(r[2]), RInt(r[1]), RInt(r[4]), RInt(r[3])>>

\* C8 amended: the round trip gives back, relative to the tile's origin, the square
\* of side x2-x1 centred on the rectangle's centre, as (y1, x1, y2, x2)
C8_RoundTripSquare ==
    pc = "absolute" =>
        \A c \in Cells : \A k \in 1 .. n :
            SelectedNonEmpty(c, k) =>
                LET r  == SelectedRect(c, k)
                    cy == Rat(r[2] + r[4], 2)
                    hw == Rat(r[3] - r[1], 2)
                    oy == RInt(tile[2])
                IN  abs_rois[c][k] = << RSub(RSub(cy, hw), oy), RInt(r[1] - tile[1]),
                                        RSub(RAdd(cy, hw), oy), RInt(r[3] - tile[1]) >>

\* a rectangle that is not square, selected in a tile away from the origin, has
\* made the round trip
C8_Witness ==
    /\ pc = "absolute"
    /\ tile[1] # 0
    /\ \E c \in Cells : \E k \in 1 .. n :
          /\ SelectedNonEmpty(c, k)
          /\ SelectedRect(c, k)[4] - SelectedRect(c, k)[2]
                # SelectedRect(c, k)[3] - SelectedRect(c, k)[1]

----------------------------------------------------------------------------
(* Claim about one_d_intersect, under SpecIntersect *)

Disjoint(o) == RLe(o.px2, o.qx1) \/ RLe(o.qx2, o.px1)
Overlap(o)  == RSub(RMin(o.px2, o.qx2), RMax(o.px1, o.qx1))

\* C9 as stated: no intersection and length 0 when p2<=q1 or q2<=p1; otherwise an
\* intersection of length min(p2,q2)-max(p1,q1), which is strictly positive
C9_IntersectOriginal ==
    pc = "one_d" =>
        IF Disjoint(inter_out)
        THEN (~inter_out.inter) /\ inter_out.inter_w = RZero
        ELSE /\ inter_out.inter
             /\ inter_out.inter_w = Overlap(inter_out)
             /\ RGt(inter_out.inter_w, RZero)

\* C9 amended: as stated, except that the length is non-negative, and strictly
\* positive when neither interval is a single point
C9_IntersectAmended ==
    pc = "one_d" =>
        IF Disjoint(inter_out)
        THEN (~inter_out.inter) /\ inter_out.inter_w = RZero
        ELSE /\ inter_out.inter
             /\ inter_out.inter_w = Overlap(inter_out)
             /\ RGe(inter_out.inter_w, RZero)
             /\ (RLt(inter_out.px1, inter_out.px2) /\ RLt(inter_out.qx1, inter_out.qx2))
                    => RGt(inter_out.inter_w, RZero)

\* a single point strictly inside the other interval: an intersection of length 0
C9_Witness ==
    /\ pc = "one_d"
    /\ ~Disjoint(inter_out)
    /\ inter_out.inter
    /\ inter_out.inter_w = RZero

----------------------------------------------------------------------------
(* Claim about roi_select, under SpecRoiSelect *)

IsNz(k)  == RGt(sel_in[k][3], RZero)
FirstPeriph == IF IsNz(3) THEN sel_in[3] ELSE sel_in[4]

\* C7: [r1,r2] when both normal ROIs have nonzero width; the one nonzero normal ROI
\* followed by the first nonzero periphery ROI when exactly one normal ROI and some
\* periphery ROI are nonzero; [p1,p2] when no normal ROI and both periphery ROIs
\* are nonzero; and two zero-width ROIs exactly when all four have zero width
C7_PriorityTable ==
    pc = "selected" =>
        /\ (IsNz(1) /\ IsNz(2)) => sel_out = <<sel_in[1], sel_in[2]>>
        /\ (IsNz(1) /\ ~IsNz(2) /\ (IsNz(3) \/ IsNz(4)))
              => sel_out = <<sel_in[1], FirstPeriph>>
        /\ (~IsNz(1) /\ IsNz(2) /\ (IsNz(3) \/ IsNz(4)))
              => sel_out = <<sel_in[2], FirstPeriph>>
        /\ (~IsNz(1) /\ ~IsNz(2) /\ IsNz(3) /\ IsNz(4))
              => sel_out = <<sel_in[3], sel_in[4]>>
        /\ (sel_out[1][3] = RZero /\ sel_out[2][3] = RZero)
              <=> (\A k \in 1 .. 4 : ~IsNz(k))

\* the literal case [true,false,true,false] with r1 of width 1 and p1 of width 2
C7_Witness ==
    /\ pc = "selected"
    /\ IsNz(1) /\ ~IsNz(2) /\ IsNz(3) /\ ~IsNz(4)
    /\ sel_in[1][3] = RInt(1) /\ sel_in[3][3] = RInt(2)
    /\ sel_out = <<sel_in[1], sel_in[3]>>

----------------------------------------------------------------------------
(* Claim about the exclusion of periphery ROIs, under SpecMerge *)

Slots == 1 .. 2

LoneNormal(c) ==
    /\ RGt(sel_in[c][1][3], RZero)
    /\ \A k \in 2 .. 4 : ~RGt(sel_in[c][k][3], RZero)

====
